---- MODULE Spec2Model ----
(***************************************************************************)
(* The chess tool server of src/chess-mcp-server.js: the stored games, the *)
(* tool handlers, and the search engine behind get_best_move (static       *)
(* evaluator, move orderer, alpha-beta search, best-move selector).  The   *)
(* file holds two revisions of the server; the first (lines 1-401) is      *)
(* modelled under the source's names, the second (lines 403-683) under the *)
(* same names with the suffix 2.                                           *)
(*                                                                         *)
(* The rules engine (chess.js) is an external library.  It is modelled as  *)
(* a finite game tree: a position is the list of moves played since        *)
(* `new Chess()`, and what the library answers for a position (its legal   *)
(* moves, what each move captures, whether the position is check, mate or  *)
(* a draw, what stands on the board) is fixed by the variable `seed`,      *)
(* which Init draws from a bounded set and no action changes.              *)
(*                                                                         *)
(* The orchestrator of src/server.js (runGame and the two players) is      *)
(* modelled on top of the tool server: Spec is the tool server called by   *)
(* any client, GameSpec the orchestrator driving it.                       *)
(***************************************************************************)
EXTENDS Integers, Sequences, FiniteSets, TLC

VARIABLES
    version,    \* which revision of the server is running (1 or 2)
    seed,       \* selects the game tree the rules engine answers from
    games,      \* const games = new Map(): game_id -> Chess object
    last,       \* the last tool call and its response
    gameInProgress, \* let gameInProgress (server.js)
    mcpAvailable,   \* let mcpAvailable (server.js)
    connecting,     \* initializeMCPClient is awaiting mcpClient.connect
    started,        \* how many startGame messages have arrived
    played,         \* how many games runGame has begun
    run,            \* the locals of the running runGame, and where it stands
    sent            \* the messages broadcast since the turn (or the game) started

serverVars == <<version, seed, games, last>>
orchVars == <<gameInProgress, mcpAvailable, connecting, started, played, run, sent>>
vars == <<version, seed, games, last,
          gameInProgress, mcpAvailable, connecting, started, played, run, sent>>

----------------------------------------------------------------------------
(* Bounds of the model *)

\* Positions this many plies after the start have no legal move.
MaxPly == 4
\* The game trees are numbered 0..MaxSeed.
MaxSeed == 3
\* The orders in which the rules engine may list the legal moves of a
\* position are numbered 0..MaxListing; 0 is the order of a stored game.
MaxListing == 2
\* At most this many startGame messages arrive.
MaxStarts == 2
\* At most this many games are begun.
MaxGames == 1

\* JavaScript's Infinity: above every finite score; only compared, never
\* added to.
Infinity == 1000000
\* JavaScript's null, where a move is expected (moves are numbered from 1).
null == 0

GameIds == {"g1", "g2"}
\* The depth argument of get_best_move; 0 also stands for a missing one.
DepthArgs == {-1, 0, 1, 2, 10}

Max(a, b) == IF a >= b THEN a ELSE b
Min(a, b) == IF a <= b THEN a ELSE b

----------------------------------------------------------------------------
(* The rules engine (chess.js), as a finite game tree.  A Chess object is  *)
(* [hist, keys, listing]: the moves played, the library's key of the       *)
(* position after each, and the order in which moves() lists the legal     *)
(* moves.                                                                  *)

PieceTypes == <<"p", "n", "b", "r", "q", "k">>
NoPiece == "-"

\* new Chess()
NewChess == [hist |-> <<>>, keys |-> <<>>, listing |-> 0]

\* The library's key of a position, a number in 0..255: that of the start
\* is fixed by seed, that of any other by the key before and the move
\* played.  keys holds the key after each move of hist, so that undo
\* restores it.
StartKeys == <<225, 198, 20, 6>>
StartKey ==
    IF seed < Len(StartKeys) THEN StartKeys[seed + 1] ELSE (225 + seed * 202) % 256
Hash(chess) == IF chess.keys = <<>> THEN StartKey ELSE chess.keys[Len(chess.keys)]
Ply(chess) == Len(chess.hist)
KeyAfter(chess, m) ==
    LET h == Hash(chess)
    IN (h * 13 + m * 3 + (h \div 8) * m + (Ply(chess) + 1) * 6) % 256

\* chess.isCheckmate(): the later in the game, the likelier.
isCheckmate(chess) == Ply(chess) > 0 /\ Hash(chess) % 4 < Ply(chess)

\* chess.isStalemate()
isStalemate(chess) ==
    /\ Ply(chess) > 0
    /\ ~isCheckmate(chess)
    /\ (Ply(chess) >= MaxPly \/ (Hash(chess) \div 4) % 8 = 0)

\* chess.isDraw(): stalemate, or a draw by repetition, insufficient material
\* or the fifty-move rule, in which moves remain legal.
isDraw(chess) ==
    \/ isStalemate(chess)
    \/ Ply(chess) > 0 /\ ~isCheckmate(chess) /\ (Hash(chess) \div 4) % 8 = 1

\* chess.isGameOver()
isGameOver(chess) == isCheckmate(chess) \/ isDraw(chess)

\* chess.isCheck(): the side to move is in check.
isCheck(chess) ==
    \/ isCheckmate(chess)
    \/ ~isStalemate(chess) /\ Ply(chess) > 0 /\ (Hash(chess) \div 4) % 4 = 3

\* chess.turn(): White moves first.
turn(chess) == IF Ply(chess) % 2 = 0 THEN "w" ELSE "b"

\* How many legal moves a position has.
NumMoves(chess) ==
    IF isCheckmate(chess) \/ isStalemate(chess) THEN 0
    ELSE IF (Hash(chess) \div 16) % 16 = 5 THEN 11
    ELSE 1 + ((Hash(chess) \div 2) % 3)

\* The place in 1..n that listing k gives, at a position of hash h, to the
\* i-th of n moves: a rotation, read backwards when k is odd.  Listing 0
\* keeps the order.
ListingAt(k, h, n, i) ==
    LET j == IF k % 2 = 1 THEN n + 1 - i ELSE i
    IN 1 + ((j - 1 + k * (h + 1)) % n)

\* chess.moves(): the legal moves.  A move is named by its number among the
\* legal moves of its position.
moves(chess) ==
    LET n == NumMoves(chess)
        h == Hash(chess)
    IN [i \in 1..n |-> ListingAt(chess.listing, h, n, i)]

\* chess.move(m) for a legal m, and chess.undo().
move(chess, m) ==
    [chess EXCEPT !.hist = Append(@, m), !.keys = Append(@, KeyAfter(chess, m))]
undo(chess) ==
    IF chess.hist = <<>> THEN chess
    ELSE [chess EXCEPT !.hist = SubSeq(@, 1, Len(@) - 1),
                       !.keys = SubSeq(@, 1, Len(@) - 1)]

\* The move object chess.move(m) returns: the moving piece, the captured
\* piece and the promotion piece (NoPiece when there is none).
moveObj(chess, m) ==
    LET h == KeyAfter(chess, m)
        piece == PieceTypes[1 + (((h \div 2) + 5) % 6)]
        cap == (h \div 3) % 8
    IN [piece |-> piece,
        captured |-> IF cap >= 1 /\ cap <= 5 /\ h % 2 = 1
                     THEN PieceTypes[cap] ELSE NoPiece,
        promotion |-> IF piece = "p" /\ h % 5 = 0 THEN "q" ELSE NoPiece]

\* chess.board() answers with one of four boards: rows 0..7 from rank 8
\* down to rank 1, columns 0..7 from file a to file h.
Empty == [type |-> NoPiece, color |-> NoPiece]
BoardWith(pieces) ==
    [row \in 0..7 |-> [col \in 0..7 |->
        IF \E p \in pieces : p.row = row /\ p.col = col
        THEN LET p == CHOOSE q \in pieces : q.row = row /\ q.col = col
             IN [type |-> p.type, color |-> p.color]
        ELSE Empty]]
Kings ==
    {[type |-> "k", color |-> "w", row |-> 7, col |-> 4],
     [type |-> "k", color |-> "b", row |-> 0, col |-> 4]}
Boards ==
    << BoardWith(Kings \cup {[type |-> "p", color |-> "w", row |-> 6, col |-> 4],
                             [type |-> "p", color |-> "b", row |-> 1, col |-> 4]}),
       BoardWith(Kings \cup {[type |-> "r", color |-> "w", row |-> 7, col |-> 0]}),
       BoardWith(Kings \cup {[type |-> "n", color |-> "b", row |-> 2, col |-> 2]}),
       BoardWith(Kings \cup {[type |-> "p", color |-> "w", row |-> 3, col |-> 4],
                             [type |-> "q", color |-> "b", row |-> 0, col |-> 3]}) >>
BoardIndex(chess) == 1 + ((Hash(chess) \div 3) % Len(Boards))
board(chess) == Boards[BoardIndex(chess)]

----------------------------------------------------------------------------
(* First revision: static evaluator *)

\* PIECE_VALUES a hundred times as large.
PIECE_VALUESTimes100 ==
    [t \in {"p", "n", "b", "r", "q", "k"} |->
        CASE t = "p" -> 10000 [] t = "n" -> 32000 [] t = "b" -> 33000
          [] t = "r" -> 50000 [] t = "q" -> 90000 [] t = "k" -> 2000000]

PIECE_VALUES ==
    [t \in {"p", "n", "b", "r", "q", "k"} |->
        CASE t = "p" -> 100 [] t = "n" -> 320 [] t = "b" -> 330
          [] t = "r" -> 500 [] t = "q" -> 900 [] t = "k" -> 20000]

PST ==
    [t \in {"p", "n", "b", "r", "q", "k"} |->
        CASE t = "p" ->
               << <<0, 0, 0, 0, 0, 0, 0, 0>>,
                  <<50, 50, 50, 50, 50, 50, 50, 50>>,
                  <<10, 10, 20, 30, 30, 20, 10, 10>>,
                  <<5, 5, 10, 25, 25, 10, 5, 5>>,
                  <<0, 0, 0, 20, 20, 0, 0, 0>>,
                  <<5, -5, -10, 0, 0, -10, -5, 5>>,
                  <<5, 10, 10, -20, -20, 10, 10, 5>>,
                  <<0, 0, 0, 0, 0, 0, 0, 0>> >>
          [] t = "n" ->
               << <<-50, -40, -30, -30, -30, -30, -40, -50>>,
                  <<-40, -20, 0, 0, 0, 0, -20, -40>>,
                  <<-30, 0, 10, 15, 15, 10, 0, -30>>,
                  <<-30, 5, 15, 20, 20, 15, 5, -30>>,
                  <<-30, 0, 15, 20, 20, 15, 0, -30>>,
                  <<-30, 5, 10, 15, 15, 10, 5, -30>>,
                  <<-40, -20, 0, 5, 5, 0, -20, -40>>,
                  <<-50, -40, -30, -30, -30, -30, -40, -50>> >>
          [] t = "b" ->
               << <<-20, -10, -10, -10, -10, -10, -10, -20>>,
                  <<-10, 0, 0, 0, 0, 0, 0, -10>>,
                  <<-10, 0, 10, 10, 10, 10, 0, -10>>,
                  <<-10, 5, 5, 10, 10, 5, 5, -10>>,
                  <<-10, 0, 5, 10, 10, 5, 0, -10>>,
                  <<-10, 5, 5, 5, 5, 5, 5, -10>>,
                  <<-10, 5, 0, 0, 0, 0, 5, -10>>,
                  <<-20, -10, -10, -10, -10, -10, -10, -20>> >>
          [] t = "r" ->
               << <<0, 0, 0, 0, 0, 0, 0, 0>>,
                  <<5, 10, 10, 10, 10, 10, 10, 5>>,
                  <<-5, 0, 0, 0, 0, 0, 0, -5>>,
                  <<-5, 0, 0, 0, 0, 0, 0, -5>>,
                  <<-5, 0, 0, 0, 0, 0, 0, -5>>,
                  <<-5, 0, 0, 0, 0, 0, 0, -5>>,
                  <<-5, 0, 0, 0, 0, 0, 0, -5>>,
                  <<0, 0, 0, 5, 5, 0, 0, 0>> >>
          [] t = "q" ->
               << <<-20, -10, -10, -5, -5, -10, -10, -20>>,
                  <<-10, 0, 0, 0, 0, 0, 0, -10>>,
                  <<-10, 0, 5, 5, 5, 5, 0, -10>>,
                  <<-5, 0, 5, 5, 5, 5, 0, -5>>,
                  <<0, 0, 5, 5, 5, 5, 0, -5>>,
                  <<-10, 5, 5, 5, 5, 5, 0, -10>>,
                  <<-10, 0, 5, 0, 0, 0, 0, -10>>,
                  <<-20, -10, -10, -5, -5, -10, -10, -20>> >>
          [] t = "k" ->
               << <<-30, -40, -40, -50, -50, -40, -40, -30>>,
                  <<-30, -40, -40, -50, -50, -40, -40, -30>>,
                  <<-30, -40, -40, -50, -50, -40, -40, -30>>,
                  <<-30, -40, -40, -50, -50, -40, -40, -30>>,
                  <<-20, -30, -30, -40, -40, -30, -30, -20>>,
                  <<-10, -20, -20, -20, -20, -20, -20, -10>>,
                  <<20, 20, 0, 0, 0, 0, 20, 20>>,
                  <<20, 30, 10, 0, 0, 10, 30, 20>> >>]

\* getPST reading the table in the same row order for both colours.
getPSTUnflipped(piece, row, col) ==
    IF piece.type \notin DOMAIN PST THEN 0
    ELSE PST[piece.type][row + 1][col + 1]

\* getPST(piece, row, col): the tables are indexed from 1 here.
getPST(piece, row, col) ==
    IF piece.type \notin DOMAIN PST THEN 0
    ELSE LET r == IF piece.color = "w" THEN row ELSE 7 - row
         IN PST[piece.type][r + 1][col + 1]

\* The double loop of evaluatePosition over the 64 squares, from square
\* number k (row k \div 8, column k % 8) on.
RECURSIVE SquaresFrom(_, _)
SquaresFrom(b, k) ==
    IF k > 63 THEN 0
    ELSE LET row == k \div 8
             col == k % 8
             piece == b[row][col]
             totalValue == PIECE_VALUES[piece.type] + getPST(piece, row, col)
         IN (IF piece = Empty THEN 0
             ELSE IF piece.color = "w" THEN totalValue ELSE -totalValue)
            + SquaresFrom(b, k + 1)

\* What the loop yields on each board chess.board() can answer with.
SquareScores == [i \in 1..Len(Boards) |-> SquaresFrom(Boards[i], 0)]

\* The score of a checkmate is -MateScore or +MateScore.
MateScore == 99999

\* evaluatePosition without its `if (chess.isDraw()) return 0`.
evaluatePositionDrawScored(chess) ==
    IF isCheckmate(chess)
    THEN (IF turn(chess) = "w" THEN -MateScore ELSE MateScore)
    ELSE SquareScores[BoardIndex(chess)]
         + (IF turn(chess) = "w" THEN Len(moves(chess)) * 2
            ELSE -(Len(moves(chess)) * 2))

\* evaluatePosition with the sign of the mate score taken for the side to
\* move instead of against it.
evaluatePositionForMover(chess) ==
    IF isCheckmate(chess)
    THEN (IF turn(chess) = "w" THEN MateScore ELSE -MateScore)
    ELSE IF isDraw(chess) THEN 0
    ELSE SquareScores[BoardIndex(chess)]
         + (IF turn(chess) = "w" THEN Len(moves(chess)) * 2
            ELSE -(Len(moves(chess)) * 2))

evaluatePosition(chess) ==
    IF isCheckmate(chess)
    THEN (IF turn(chess) = "w" THEN -MateScore ELSE MateScore)
    ELSE IF isDraw(chess) THEN 0
    ELSE LET score == SquareScores[BoardIndex(chess)]
             mobility == Len(moves(chess))
         IN score + (IF turn(chess) = "w" THEN mobility * 2 ELSE -(mobility * 2))

----------------------------------------------------------------------------
(* First revision: move orderer *)

\* moveScore without the term for a capture.
moveScoreIgnoresCapture(moveObject, givesCheck) ==
    (IF moveObject.promotion # NoPiece
     THEN PIECE_VALUES[moveObject.promotion] ELSE 0)
    + (IF givesCheck THEN 50 ELSE 0)

\* The score orderMoves gives a move, from the move object and from
\* chess.isCheck() asked while the move is applied.
moveScore(moveObject, givesCheck) ==
    (IF moveObject.captured # NoPiece
     THEN 10 * PIECE_VALUES[moveObject.captured] - PIECE_VALUES[moveObject.piece]
     ELSE 0)
    + (IF moveObject.promotion # NoPiece
       THEN PIECE_VALUES[moveObject.promotion] ELSE 0)
    + (IF givesCheck THEN 50 ELSE 0)

\* moves.map(...): each move is applied, scored and undone in turn.  Yields
\* the scored list and the Chess object as the loop leaves it.
RECURSIVE scoreMoves(_, _, _, _)
\* scoreMoves without the chess.undo() that ends the scoring of a move.
scoreMovesNoUndo(chess, ms, i, scored) ==
    IF i > Len(ms) THEN [scored |-> scored, chess |-> chess]
    ELSE scoreMoves(move(chess, ms[i]), ms, i + 1,
                    Append(scored,
                           [move |-> ms[i],
                            score |-> moveScore(moveObj(chess, ms[i]),
                                                isCheck(move(chess, ms[i])))]))

scoreMoves(chess, ms, i, scored) ==
    IF i > Len(ms) THEN [scored |-> scored, chess |-> chess]
    ELSE scoreMoves(undo(move(chess, ms[i])), ms, i + 1,
                    Append(scored,
                           [move |-> ms[i],
                            score |-> moveScore(moveObj(chess, ms[i]),
                                                isCheck(move(chess, ms[i])))]))

\* A comparator that also puts b before an a of equal score.
sortsBeforeOrLevel(b, a) == b.score - a.score >= 0

\* Whether the sort's comparator (b.score - a.score) puts b before a.
sortsBefore(b, a) == b.score - a.score > 0

\* Where the sort puts x among the entries already sorted: Array.prototype
\* .sort is stable, so behind every entry the comparator does not put after
\* x.  Yields the number of entries that stay ahead of x.
sortPlace(sorted, x) ==
    IF \A j \in 1..Len(sorted) : ~sortsBefore(x, sorted[j]) THEN Len(sorted)
    ELSE (CHOOSE j \in 1..Len(sorted) :
              /\ sortsBefore(x, sorted[j])
              /\ \A l \in 1..(j - 1) : ~sortsBefore(x, sorted[l])) - 1

insertAt(sorted, k, x) ==
    SubSeq(sorted, 1, k) \o <<x>> \o SubSeq(sorted, k + 1, Len(sorted))

\* scored.sort((a, b) => b.score - a.score)
RECURSIVE sortScored(_, _, _)
sortScored(scored, i, sorted) ==
    IF i > Len(scored) THEN sorted
    ELSE sortScored(scored, i + 1,
                    insertAt(sorted, sortPlace(sorted, scored[i]), scored[i]))

\* scored.map(s => s.move), with the Chess object the scoring left.
rankedMoves(sorted, chess) ==
    [moves |-> [i \in 1..Len(sorted) |-> sorted[i].move], chess |-> chess]

sortAndMap(r) == rankedMoves(sortScored(r.scored, 1, <<>>), r.chess)

\* orderMoves(chess, moves): the ranked moves, and the Chess object after.
orderMoves(chess, ms) == sortAndMap(scoreMoves(chess, ms, 1, <<>>))

----------------------------------------------------------------------------
(* First revision: alpha-beta search *)

\* One call of minimax, as the search records it: the Chess object and the
\* arguments it was entered with, the value it returned and the Chess
\* object as it left it.
Visit(chess, depth, alpha, beta, isMaximizing, val, left) ==
    [chess |-> chess, depth |-> depth, alpha |-> alpha, beta |-> beta,
     isMaximizing |-> isMaximizing, val |-> val, left |-> left]

\* What a call of minimax yields: the value returned, the Chess object as
\* the call leaves it, and the calls of minimax made in it.
Result(val, chess, visits) == [val |-> val, chess |-> chess, visits |-> visits]

\* The break test with its comparison turned round.
cutoffFlipped(alpha, beta) == alpha <= beta

\* The loop without its break.
cutoffNever(alpha, beta) == FALSE

\* `if (beta <= alpha) break;`
cutoff(alpha, beta) == beta <= alpha

RECURSIVE minimax(_, _, _, _, _)
RECURSIVE maxLoop(_, _, _, _, _, _, _, _)
RECURSIVE minLoop(_, _, _, _, _, _, _, _)

\* maxStep breaking out of the loop before the undo.
maxStepBreakBeforeUndo(orderedMoves, i, depth, alpha, beta, maxScore, visits, r) ==
    IF cutoff(Max(alpha, r.val), beta)
    THEN Result(Max(maxScore, r.val), r.chess, visits \cup r.visits)
    ELSE maxLoop(undo(r.chess), orderedMoves, i + 1, depth, Max(alpha, r.val), beta,
                 Max(maxScore, r.val), visits \cup r.visits)

\* maxStep with `maxScore = score` for `maxScore = Math.max(maxScore, score)`.
maxStepKeepsLast(orderedMoves, i, depth, alpha, beta, maxScore, visits, r) ==
    IF cutoff(Max(alpha, r.val), beta)
    THEN Result(r.val, undo(r.chess), visits \cup r.visits)
    ELSE maxLoop(undo(r.chess), orderedMoves, i + 1, depth, Max(alpha, r.val), beta,
                 r.val, visits \cup r.visits)

\* maxStep taking the minimum for maxScore.
maxStepTakesMin(orderedMoves, i, depth, alpha, beta, maxScore, visits, r) ==
    IF cutoff(Max(alpha, r.val), beta)
    THEN Result(Min(maxScore, r.val), undo(r.chess), visits \cup r.visits)
    ELSE maxLoop(undo(r.chess), orderedMoves, i + 1, depth, Max(alpha, r.val), beta,
                 Min(maxScore, r.val), visits \cup r.visits)

\* The body of the maximizing loop after the recursive call has returned r
\* for the i-th move: undo, take the maxima, break or go on.
maxStep(orderedMoves, i, depth, alpha, beta, maxScore, visits, r) ==
    IF cutoff(Max(alpha, r.val), beta)
    THEN Result(Max(maxScore, r.val), undo(r.chess), visits \cup r.visits)
    ELSE maxLoop(undo(r.chess), orderedMoves, i + 1, depth, Max(alpha, r.val), beta,
                 Max(maxScore, r.val), visits \cup r.visits)

\* The loop of a maximizing node from the i-th ordered move on.
maxLoop(chess, orderedMoves, i, depth, alpha, beta, maxScore, visits) ==
    IF i > Len(orderedMoves) THEN Result(maxScore, chess, visits)
    ELSE maxStep(orderedMoves, i, depth, alpha, beta, maxScore, visits,
                 minimax(move(chess, orderedMoves[i]), depth - 1, alpha, beta, FALSE))

\* minStep with the maximizing branch's Math.max left in for minScore.
minStepTakesMax(orderedMoves, i, depth, alpha, beta, minScore, visits, r) ==
    IF cutoff(alpha, Min(beta, r.val))
    THEN Result(Max(minScore, r.val), undo(r.chess), visits \cup r.visits)
    ELSE minLoop(undo(r.chess), orderedMoves, i + 1, depth, alpha, Min(beta, r.val),
                 Max(minScore, r.val), visits \cup r.visits)

\* minStep issuing a second undo for the one move it applied.
minStepUndoesTwice(orderedMoves, i, depth, alpha, beta, minScore, visits, r) ==
    IF cutoff(alpha, Min(beta, r.val))
    THEN Result(Min(minScore, r.val), undo(undo(r.chess)), visits \cup r.visits)
    ELSE minLoop(undo(undo(r.chess)), orderedMoves, i + 1, depth, alpha, Min(beta, r.val),
                 Min(minScore, r.val), visits \cup r.visits)

\* The body of the minimizing loop after the recursive call has returned r.
minStep(orderedMoves, i, depth, alpha, beta, minScore, visits, r) ==
    IF cutoff(alpha, Min(beta, r.val))
    THEN Result(Min(minScore, r.val), undo(r.chess), visits \cup r.visits)
    ELSE minLoop(undo(r.chess), orderedMoves, i + 1, depth, alpha, Min(beta, r.val),
                 Min(minScore, r.val), visits \cup r.visits)

\* The loop of a minimizing node from the i-th ordered move on.
minLoop(chess, orderedMoves, i, depth, alpha, beta, minScore, visits) ==
    IF i > Len(orderedMoves) THEN Result(minScore, chess, visits)
    ELSE minStep(orderedMoves, i, depth, alpha, beta, minScore, visits,
                 minimax(move(chess, orderedMoves[i]), depth - 1, alpha, beta, TRUE))

\* `moves.length > 10 ? orderMoves(chess, moves) : moves`
orderIfMany(chess, ms) ==
    IF Len(ms) > 10 THEN orderMoves(chess, ms) ELSE [moves |-> ms, chess |-> chess]

\* The loop of a node over the ordered moves.
searchMoves(ordered, depth, alpha, beta, isMaximizing) ==
    IF isMaximizing
    THEN maxLoop(ordered.chess, ordered.moves, 1, depth, alpha, beta, -Infinity, {})
    ELSE minLoop(ordered.chess, ordered.moves, 1, depth, alpha, beta, Infinity, {})

\* A result with the call that yielded it added to its calls.
withVisit(chess, depth, alpha, beta, isMaximizing, r) ==
    Result(r.val, r.chess,
           r.visits \cup {Visit(chess, depth, alpha, beta, isMaximizing, r.val, r.chess)})

\* minimax(chess, depth, alpha, beta, isMaximizing)
minimax(chess, depth, alpha, beta, isMaximizing) ==
    IF depth = 0 \/ isGameOver(chess)
    THEN withVisit(chess, depth, alpha, beta, isMaximizing,
                   Result(evaluatePosition(chess), chess, {}))
    ELSE withVisit(chess, depth, alpha, beta, isMaximizing,
                   searchMoves(orderIfMany(chess, moves(chess)), depth, alpha, beta,
                               isMaximizing))

----------------------------------------------------------------------------
(* First revision: best-move selector *)

\* What getBestMove yields: the move returned (null when there is none), the
\* Chess object as the call leaves it, and the calls of minimax made.
Best(bestMove, chess, visits) == [move |-> bestMove, chess |-> chess, visits |-> visits]

\* improves with the two comparisons exchanged.
improvesSwapped(isMaximizing, score, bestScore) ==
    IF isMaximizing THEN score < bestScore ELSE score > bestScore

\* improves with >= and <= for > and <.
improvesOrEqual(isMaximizing, score, bestScore) ==
    IF isMaximizing THEN score >= bestScore ELSE score <= bestScore

\* `if (score > bestScore)` for the maximizer, `if (score < bestScore)` for
\* the minimizer.
improves(isMaximizing, score, bestScore) ==
    IF isMaximizing THEN score > bestScore ELSE score < bestScore

RECURSIVE rootLoop(_, _, _, _, _, _, _, _)

\* The body of the loop of getBestMove after minimax has returned r for the
\* i-th move: undo and compare.
rootStep(orderedMoves, i, depth, isMaximizing, bestMove, bestScore, visits, r) ==
    IF improves(isMaximizing, r.val, bestScore)
    THEN rootLoop(undo(r.chess), orderedMoves, i + 1, depth, isMaximizing,
                  orderedMoves[i], r.val, visits \cup r.visits)
    ELSE rootLoop(undo(r.chess), orderedMoves, i + 1, depth, isMaximizing,
                  bestMove, bestScore, visits \cup r.visits)

\* The loop of getBestMove from the i-th ordered move on.
rootLoop(chess, orderedMoves, i, depth, isMaximizing, bestMove, bestScore, visits) ==
    IF i > Len(orderedMoves) THEN Best(bestMove, chess, visits)
    ELSE rootStep(orderedMoves, i, depth, isMaximizing, bestMove, bestScore, visits,
                  minimax(move(chess, orderedMoves[i]), depth - 1,
                          -Infinity, Infinity, ~isMaximizing))

\* `let bestMove = orderedMoves[0]`
firstCandidate(orderedMoves) == orderedMoves[1]

\* `let bestScore = isMaximizing ? -Infinity : Infinity`
worstScore(isMaximizing) == IF isMaximizing THEN -Infinity ELSE Infinity

\* getBestMove from `const isMaximizing = chess.turn() === 'w'` on.
selectBest(ordered, depth, isMaximizing) ==
    rootLoop(ordered.chess, ordered.moves, 1, depth, isMaximizing,
             firstCandidate(ordered.moves), worstScore(isMaximizing), {})

selectFrom(ordered, depth) == selectBest(ordered, depth, turn(ordered.chess) = "w")

\* getBestMove(chess, depth)
getBestMove(chess, depth) ==
    IF Len(moves(chess)) = 0 THEN Best(null, chess, {})
    ELSE selectFrom(orderMoves(chess, moves(chess)), depth)

----------------------------------------------------------------------------
(* Second revision: evaluator, search and selector *)

\* The double loop of the second evaluatePosition: material only.
RECURSIVE SquaresFrom2(_, _)
SquaresFrom2(b, k) ==
    IF k > 63 THEN 0
    ELSE LET piece == b[k \div 8][k % 8]
             value == PIECE_VALUES[piece.type]
         IN (IF piece = Empty THEN 0
             ELSE IF piece.color = "w" THEN value ELSE -value)
            + SquaresFrom2(b, k + 1)

SquareScores2 == [i \in 1..Len(Boards) |-> SquaresFrom2(Boards[i], 0)]

evaluatePosition2(chess) ==
    IF isCheckmate(chess)
    THEN (IF turn(chess) = "w" THEN -Infinity ELSE Infinity)
    ELSE IF isDraw(chess) THEN 0
    ELSE SquareScores2[BoardIndex(chess)]

RECURSIVE minimax2(_, _, _, _, _)
RECURSIVE maxLoop2(_, _, _, _, _, _, _, _)
RECURSIVE minLoop2(_, _, _, _, _, _, _, _)

maxStep2(ms, i, depth, alpha, beta, maxScore, visits, r) ==
    IF beta <= Max(alpha, r.val)
    THEN Result(Max(maxScore, r.val), undo(r.chess), visits \cup r.visits)
    ELSE maxLoop2(undo(r.chess), ms, i + 1, depth, Max(alpha, r.val), beta,
                  Max(maxScore, r.val), visits \cup r.visits)

maxLoop2(chess, ms, i, depth, alpha, beta, maxScore, visits) ==
    IF i > Len(ms) THEN Result(maxScore, chess, visits)
    ELSE maxStep2(ms, i, depth, alpha, beta, maxScore, visits,
                  minimax2(move(chess, ms[i]), depth - 1, alpha, beta, FALSE))

minStep2(ms, i, depth, alpha, beta, minScore, visits, r) ==
    IF Min(beta, r.val) <= alpha
    THEN Result(Min(minScore, r.val), undo(r.chess), visits \cup r.visits)
    ELSE minLoop2(undo(r.chess), ms, i + 1, depth, alpha, Min(beta, r.val),
                  Min(minScore, r.val), visits \cup r.visits)

minLoop2(chess, ms, i, depth, alpha, beta, minScore, visits) ==
    IF i > Len(ms) THEN Result(minScore, chess, visits)
    ELSE minStep2(ms, i, depth, alpha, beta, minScore, visits,
                  minimax2(move(chess, ms[i]), depth - 1, alpha, beta, TRUE))

searchMoves2(chess, ms, depth, alpha, beta, isMaximizing) ==
    IF isMaximizing
    THEN maxLoop2(chess, ms, 1, depth, alpha, beta, -Infinity, {})
    ELSE minLoop2(chess, ms, 1, depth, alpha, beta, Infinity, {})

minimax2(chess, depth, alpha, beta, isMaximizing) ==
    IF depth = 0 \/ isGameOver(chess)
    THEN withVisit(chess, depth, alpha, beta, isMaximizing,
                   Result(evaluatePosition2(chess), chess, {}))
    ELSE withVisit(chess, depth, alpha, beta, isMaximizing,
                   searchMoves2(chess, moves(chess), depth, alpha, beta, isMaximizing))

RECURSIVE rootLoop2(_, _, _, _, _, _, _, _)

rootStep2(ms, i, depth, isMaximizing, bestMove, bestScore, visits, r) ==
    IF (IF isMaximizing THEN r.val > bestScore ELSE r.val < bestScore)
    THEN rootLoop2(undo(r.chess), ms, i + 1, depth, isMaximizing,
                   ms[i], r.val, visits \cup r.visits)
    ELSE rootLoop2(undo(r.chess), ms, i + 1, depth, isMaximizing,
                   bestMove, bestScore, visits \cup r.visits)

rootLoop2(chess, ms, i, depth, isMaximizing, bestMove, bestScore, visits) ==
    IF i > Len(ms) THEN Best(bestMove, chess, visits)
    ELSE rootStep2(ms, i, depth, isMaximizing, bestMove, bestScore, visits,
                   minimax2(move(chess, ms[i]), depth - 1,
                            -Infinity, Infinity, ~isMaximizing))

\* selectBest2 with `let bestMove = null` for `let bestMove = moves[0]`.
selectBest2Unset(chess, ms, depth, isMaximizing) ==
    rootLoop2(chess, ms, 1, depth, isMaximizing, null,
              IF isMaximizing THEN -Infinity ELSE Infinity, {})

selectBest2(chess, ms, depth, isMaximizing) ==
    rootLoop2(chess, ms, 1, depth, isMaximizing, ms[1],
              IF isMaximizing THEN -Infinity ELSE Infinity, {})

getBestMove2(chess, depth) ==
    IF Len(moves(chess)) = 0 THEN Best(null, chess, {})
    ELSE selectBest2(chess, moves(chess), depth, turn(chess) = "w")

----------------------------------------------------------------------------
(* The tool handlers (the same in both revisions but for the depth ceiling) *)

\* `Math.min(args.depth || 3, 3)` in the first revision and
\* `Math.min(args.depth || 3, 4)` in the second.
clampDepth(depthArg) == Min(IF depthArg = 0 THEN 3 ELSE depthArg, 3)
clampDepth2(depthArg) == Min(IF depthArg = 0 THEN 3 ELSE depthArg, 4)

\* The response of a tool call, with what the call was.  text is the kind
\* of message and move the move named in it; for get_best_move, entry is
\* the Chess object of the named game when the handler looked it up and
\* depth the depth handed to getBestMove.
Response(tool, id, isError, text) ==
    [tool |-> tool, game_id |-> id, isError |-> isError, text |-> text,
     move |-> null, entry |-> NewChess, depth |-> 0]

NotFound(tool, id) == Response(tool, id, TRUE, "Game not found")

\* What runGame holds when no game is running.
IdleRun ==
    [pc |-> "idle", chess |-> NewChess, moveHistory |-> <<>>,
     illegalMoveLog |-> <<>>, mcpGameId |-> 0, isWhiteTurn |-> TRUE,
     move |-> null, attempts |-> 0, illegalAttempts |-> <<>>,
     proposedMove |-> null]

\* The tool server with no game stored; the orchestrator listening, its
\* initializeMCPClient awaiting the connection (mcpClient is assigned before
\* the await), no game running.
Init ==
    /\ version \in {1, 2}
    /\ seed \in 0..MaxSeed
    /\ games = <<>>
    /\ last = Response("none", "none", FALSE, "none")
    /\ gameInProgress = FALSE
    /\ mcpAvailable = FALSE
    /\ connecting = TRUE
    /\ started = 0
    /\ played = 0
    /\ run = IdleRun
    /\ sent = <<>>

\* case 'new_game'
new_game(id) ==
    /\ games' = [g \in DOMAIN games \cup {id} |-> IF g = id THEN NewChess ELSE games[g]]
    /\ last' = Response("new_game", id, FALSE, "New game created")
    /\ UNCHANGED <<version, seed>>

\* case 'get_legal_moves'
get_legal_moves(id) ==
    /\ IF id \notin DOMAIN games
       THEN last' = NotFound("get_legal_moves", id)
       ELSE last' = Response("get_legal_moves", id, FALSE, "moves")
    /\ UNCHANGED <<version, seed, games>>

\* make_move leaving the move it reports invalid on the board.
make_moveKeepsInvalid(id, m) ==
    /\ IF id \notin DOMAIN games
       THEN /\ last' = NotFound("make_move", id)
            /\ UNCHANGED games
       ELSE LET chess == games[id]
                legal == \E i \in 1..Len(moves(chess)) : moves(chess)[i] = m
            IN /\ games' = [games EXCEPT ![id] = move(chess, m)]
               /\ last' = [Response("make_move", id, ~legal,
                                    IF legal THEN "played successfully" ELSE "Invalid move")
                              EXCEPT !.move = m]
    /\ UNCHANGED <<version, seed>>

\* case 'make_move': chess.move(args.move) throws or returns null for a move
\* that is not legal, and applies a legal one.
make_move(id, m) ==
    /\ IF id \notin DOMAIN games
       THEN /\ last' = NotFound("make_move", id)
            /\ UNCHANGED games
       ELSE LET chess == games[id]
                legal == \E i \in 1..Len(moves(chess)) : moves(chess)[i] = m
            IN IF legal
               THEN /\ games' = [games EXCEPT ![id] = move(chess, m)]
                    /\ last' = [Response("make_move", id, FALSE, "played successfully")
                                   EXCEPT !.move = m]
               ELSE /\ UNCHANGED games
                    /\ last' = [Response("make_move", id, TRUE, "Invalid move")
                                   EXCEPT !.move = m]
    /\ UNCHANGED <<version, seed>>

\* The end of the get_best_move handler: r is what getBestMove yielded.
bestMoveResponse(id, chess, depth, r) ==
    /\ games' = [games EXCEPT ![id] = r.chess]
    /\ last' = [Response("get_best_move", id, FALSE,
                         IF r.move = null THEN "No moves available" ELSE "best move")
                   EXCEPT !.move = r.move, !.entry = chess, !.depth = depth]

\* getBestMove as the running revision has it.
search(chess, depth) ==
    IF version = 1 THEN getBestMove(chess, depth) ELSE getBestMove2(chess, depth)

\* The depth handed to getBestMove.
searchDepth(depthArg) ==
    IF version = 1 THEN clampDepth(depthArg) ELSE clampDepth2(depthArg)

\* case 'get_best_move'
get_best_move(id, depthArg) ==
    /\ IF id \notin DOMAIN games
       THEN /\ last' = NotFound("get_best_move", id)
            /\ UNCHANGED games
       ELSE bestMoveResponse(id, games[id], searchDepth(depthArg),
                             search(games[id], searchDepth(depthArg)))
    /\ UNCHANGED <<version, seed>>

\* case 'get_board'
get_board(id) ==
    /\ IF id \notin DOMAIN games
       THEN last' = NotFound("get_board", id)
       ELSE last' = Response("get_board", id, FALSE, "ascii")
    /\ UNCHANGED <<version, seed, games>>

\* default: an unknown tool name
unknown_tool ==
    /\ last' = Response("unknown", "none", TRUE, "Unknown tool")
    /\ UNCHANGED <<version, seed, games>>

\* The move argument of make_move: the legal moves of the named game, and one
\* that is not legal.
MoveArgs(id) ==
    IF id \in DOMAIN games THEN 1..(NumMoves(games[id]) + 1) ELSE {1}

\* The tool server called by a client other than the orchestrator.
Next ==
    \/ \E id \in GameIds : new_game(id) /\ UNCHANGED orchVars
    \/ \E id \in GameIds : get_legal_moves(id) /\ UNCHANGED orchVars
    \/ \E id \in GameIds : \E m \in MoveArgs(id) : make_move(id, m) /\ UNCHANGED orchVars
    \/ \E id \in GameIds : \E d \in DepthArgs : get_best_move(id, d) /\ UNCHANGED orchVars
    \/ \E id \in GameIds : get_board(id) /\ UNCHANGED orchVars
    \/ unknown_tool /\ UNCHANGED orchVars

Spec == Init /\ [][Next]_vars

----------------------------------------------------------------------------
(* The orchestrator: runGame and the two players (src/server.js) *)

\* `const maxAttempts = 3`
maxAttempts == 3
\* error.message, where a move is expected (line 304).
errorMessage == -1
\* `arguments: { game_id: gameId, depth: 10 }`
engineDepth == 10

\* broadcast(message): the type of the message and what it carries of the
\* player, the move, the attempt, the position and the move history.
Message(type, isWhite, m, attempt, chess, moveHistory) ==
    [type |-> type, isWhite |-> isWhite, move |-> m, attempt |-> attempt,
     fen |-> chess, moveHistory |-> moveHistory]
Notice(type) == Message(type, TRUE, null, 0, NewChess, <<>>)

\* chessLegalMoves.includes(x), and whether chess.move(x) yields a result.
\* Every proposal passes for legal.
includesAnything(list, x) == TRUE
includes(list, x) == \E i \in 1..Len(list) : list[i] = x

\* A proposal that is no legal move of the position.
IllegalProposal(chess) == NumMoves(chess) + 1
Proposals(chess) == 1..IllegalProposal(chess)

\* The end of initializeMCPClient: connect and listTools went through (ok)
\* or threw.
initializeMCPClient(ok) ==
    /\ connecting
    /\ connecting' = FALSE
    /\ mcpAvailable' = ok
    /\ UNCHANGED <<gameInProgress, started, played, run, sent>>
    /\ UNCHANGED serverVars

\* The end of runGame without its `gameInProgress = false`.
gameOverKeepsFlag(r, log) ==
    /\ sent' = Append(log, Message("gameOver", r.isWhiteTurn, null, r.attempts,
                                   r.chess, r.moveHistory))
    /\ run' = IdleRun
    /\ UNCHANGED gameInProgress

\* From `// Game over` to the end of runGame.
gameOver(r, log) ==
    /\ sent' = Append(log, Message("gameOver", r.isWhiteTurn, null, r.attempts,
                                   r.chess, r.moveHistory))
    /\ run' = IdleRun
    /\ gameInProgress' = FALSE

\* The loop left whatever the position.
gameLoopLeaves(r) == gameOver(r, sent)
\* The head of the game loop, up to the delay that follows turnStart.
gameLoop(r) ==
    IF isGameOver(r.chess) THEN gameOver(r, sent)
    ELSE /\ sent' = <<Message("turnStart", turn(r.chess) = "w", null, 0,
                              r.chess, r.moveHistory)>>
         /\ run' = [r EXCEPT !.pc = "ask", !.isWhiteTurn = turn(r.chess) = "w",
                             !.move = null, !.attempts = 0,
                             !.illegalAttempts = <<>>, !.proposedMove = null]
         /\ UNCHANGED gameInProgress

\* runGame without its `if (gameInProgress)`.
runGameUnguarded ==
    /\ started < MaxStarts
    /\ gameInProgress \/ played < MaxGames
    /\ started' = started + 1
    /\ gameInProgress' = TRUE
    /\ played' = played + 1
    /\ IF mcpAvailable
       THEN /\ run' = [IdleRun EXCEPT !.pc = "new_game", !.mcpGameId = played + 1]
            /\ sent' = <<Notice("gameStart")>>
       ELSE /\ run' = [IdleRun EXCEPT !.pc = "ask", !.mcpGameId = played + 1]
            /\ sent' = <<Notice("gameStart"),
                         Message("turnStart", TRUE, null, 0, NewChess, <<>>)>>
    /\ UNCHANGED <<mcpAvailable, connecting>>
    /\ UNCHANGED serverVars

\* A startGame message: runGame up to its first await.
runGame ==
    /\ started < MaxStarts
    /\ gameInProgress \/ played < MaxGames
    /\ started' = started + 1
    /\ IF gameInProgress
       THEN /\ sent' = Append(sent, Notice("error"))
            /\ UNCHANGED <<gameInProgress, played, run>>
       ELSE /\ gameInProgress' = TRUE
            /\ played' = played + 1
            /\ IF mcpAvailable
               THEN /\ run' = [IdleRun EXCEPT !.pc = "new_game", !.mcpGameId = played + 1]
                    /\ sent' = <<Notice("gameStart")>>
               ELSE /\ run' = [IdleRun EXCEPT !.pc = "ask", !.mcpGameId = played + 1]
                    /\ sent' = <<Notice("gameStart"),
                                 Message("turnStart", TRUE, null, 0, NewChess, <<>>)>>
    /\ UNCHANGED <<mcpAvailable, connecting>>
    /\ UNCHANGED serverVars

\* The new_game call of runGame returns or throws; then the first turn
\* starts.
newGameReturns ==
    /\ run.pc = "new_game"
    /\ new_game(run.mcpGameId)
    /\ run' = [run EXCEPT !.pc = "ask"]
    /\ sent' = Append(sent, Message("turnStart", TRUE, null, 0, NewChess, <<>>))
    /\ UNCHANGED <<gameInProgress, mcpAvailable, connecting, started, played>>
newGameThrows ==
    /\ run.pc = "new_game"
    /\ mcpAvailable' = FALSE
    /\ run' = [run EXCEPT !.pc = "ask"]
    /\ sent' = Append(sent, Message("turnStart", TRUE, null, 0, NewChess, <<>>))
    /\ UNCHANGED <<gameInProgress, connecting, started, played>>
    /\ UNCHANGED serverVars

\* The catch block of the retry loop, up to the delay before the retry.
attemptedMove(r) == IF r.proposedMove # null THEN r.proposedMove ELSE errorMessage
rejected(r, log) ==
    /\ run' = [r EXCEPT
          !.pc = "ask",
          !.attempts = @ + 1,
          !.illegalAttempts = Append(@, attemptedMove(r)),
          !.illegalMoveLog =
              IF r.isWhiteTurn
              THEN Append(@, [turn |-> Len(r.moveHistory) + 1,
                              attemptedMove |-> attemptedMove(r),
                              attempt |-> r.attempts + 1])
              ELSE @]
    /\ sent' = Append(log, Message("illegalMove", r.isWhiteTurn, attemptedMove(r),
                                  r.attempts + 1, r.chess, r.moveHistory))
    /\ UNCHANGED gameInProgress

\* The body of the try block once the player has returned proposedMove p:
\* moveAttempt, chess.move, and on success the history push, up to the
\* await of the make_move call (or, without it, of the delay after
\* moveSuccess).
proposed(r, p) ==
    LET log == Append(sent, Message("moveAttempt", r.isWhiteTurn, p,
                                    r.attempts + 1, r.chess, r.moveHistory))
        tried == [r EXCEPT !.proposedMove = p]
    IN  IF includes(moves(r.chess), p)
        THEN LET made == [tried EXCEPT !.chess = move(r.chess, p),
                                       !.move = p,
                                       !.moveHistory = Append(@, p)]
             IN  IF mcpAvailable
                 THEN /\ run' = [made EXCEPT !.pc = "make_move"]
                      /\ sent' = log
                      /\ UNCHANGED gameInProgress
                 ELSE /\ run' = [made EXCEPT !.pc = "loop"]
                      /\ sent' = Append(log, Message("moveSuccess", r.isWhiteTurn, p,
                                   r.attempts + 1, made.chess, made.moveHistory))
                      /\ UNCHANGED gameInProgress
        ELSE rejected(tried, log)

\* getPureLLMMove returns what the model answered, legal or not, or throws.
getPureLLMMove(p) ==
    /\ run.pc = "ask" /\ run.isWhiteTurn /\ run.attempts < maxAttempts
    /\ proposed(run, p)
    /\ UNCHANGED <<mcpAvailable, connecting, started, played>>
    /\ UNCHANGED serverVars
getPureLLMMoveThrows ==
    /\ run.pc = "ask" /\ run.isWhiteTurn /\ run.attempts < maxAttempts
    /\ rejected(run, sent)
    /\ UNCHANGED <<mcpAvailable, connecting, started, played>>
    /\ UNCHANGED serverVars

\* getMCPPlayerMove up to its first await: the engine is asked when the MCP
\* server is available, the model otherwise.
getMCPPlayerMove ==
    /\ run.pc = "ask" /\ ~run.isWhiteTurn /\ run.attempts < maxAttempts
    /\ run' = [run EXCEPT !.pc = IF mcpAvailable THEN "get_best_move" ELSE "fallback"]
    /\ UNCHANGED <<gameInProgress, mcpAvailable, connecting, started, played, sent>>
    /\ UNCHANGED serverVars

\* The get_best_move call returns: the answer is played when the position's
\* legal moves include it, and the model is asked otherwise.
engineMove(response) == IF response.isError THEN null ELSE response.move
engineReturns ==
    /\ run.pc = "get_best_move"
    /\ get_best_move(run.mcpGameId, engineDepth)
    /\ IF includes(moves(run.chess), engineMove(last'))
       THEN proposed(run, engineMove(last'))
       ELSE /\ run' = [run EXCEPT !.pc = "fallback"]
            /\ UNCHANGED <<gameInProgress, sent>>
    /\ UNCHANGED <<mcpAvailable, connecting, started, played>>
engineThrows ==
    /\ run.pc = "get_best_move"
    /\ run' = [run EXCEPT !.pc = "fallback"]
    /\ UNCHANGED <<gameInProgress, mcpAvailable, connecting, started, played, sent>>
    /\ UNCHANGED serverVars

\* The model's answer for Black: played when legal, replaced by the first
\* legal move when not, and by chess.moves()[0] when the call throws.
fallbackReturnsUnchecked(p) ==
    /\ run.pc = "fallback"
    /\ proposed(run, p)
    /\ UNCHANGED <<mcpAvailable, connecting, started, played>>
    /\ UNCHANGED serverVars
fallbackReturns(p) ==
    /\ run.pc = "fallback"
    /\ proposed(run, IF includes(moves(run.chess), p) THEN p
                     ELSE moves(run.chess)[1])
    /\ UNCHANGED <<mcpAvailable, connecting, started, played>>
    /\ UNCHANGED serverVars
fallbackThrows ==
    /\ run.pc = "fallback"
    /\ proposed(run, moves(run.chess)[1])
    /\ UNCHANGED <<mcpAvailable, connecting, started, played>>
    /\ UNCHANGED serverVars

\* The make_move call that keeps the MCP server's game in step returns or
\* throws; moveSuccess follows either way.
moveSuccess ==
    /\ run' = [run EXCEPT !.pc = "loop"]
    /\ sent' = Append(sent, Message("moveSuccess", run.isWhiteTurn, run.proposedMove,
                                    run.attempts + 1, run.chess, run.moveHistory))
    /\ UNCHANGED <<gameInProgress, mcpAvailable, connecting, started, played>>
syncReturns ==
    /\ run.pc = "make_move"
    /\ make_move(run.mcpGameId, run.proposedMove)
    /\ moveSuccess
syncThrows ==
    /\ run.pc = "make_move"
    /\ moveSuccess
    /\ UNCHANGED serverVars

\* After the delay that follows a move: the next turn, or the end.
nextTurn ==
    /\ run.pc = "loop"
    /\ gameLoop(run)
    /\ UNCHANGED <<mcpAvailable, connecting, started, played>>
    /\ UNCHANGED serverVars

\* The retry loop ends without a move: resignation, and the game is over.
resign ==
    /\ run.pc = "ask" /\ run.attempts >= maxAttempts
    /\ gameOver(run, Append(sent, Message("resignation", run.isWhiteTurn, null,
                                          run.attempts, run.chess, run.moveHistory)))
    /\ UNCHANGED <<mcpAvailable, connecting, started, played>>
    /\ UNCHANGED serverVars

GameNext ==
    \/ \E ok \in BOOLEAN : initializeMCPClient(ok)
    \/ runGame
    \/ newGameReturns
    \/ newGameThrows
    \/ \E p \in Proposals(run.chess) : getPureLLMMove(p)
    \/ getPureLLMMoveThrows
    \/ getMCPPlayerMove
    \/ engineReturns
    \/ engineThrows
    \/ \E p \in Proposals(run.chess) : fallbackReturns(p)
    \/ fallbackThrows
    \/ syncReturns
    \/ syncThrows
    \/ nextTurn
    \/ resign

GameSpec == Init /\ [][GameNext]_vars

\* What a running game is waiting for: a timer, the answer of a player or the
\* answer of a tool call.  Each comes in the end, as an answer or as an
\* exception.
Awaited ==
    \/ nextTurn
    \/ resign
    \/ getMCPPlayerMove
    \/ newGameThrows
    \/ newGameReturns
    \/ getPureLLMMoveThrows
    \/ \E p \in Proposals(run.chess) : getPureLLMMove(p)
    \/ engineThrows
    \/ engineReturns
    \/ fallbackThrows
    \/ \E p \in Proposals(run.chess) : fallbackReturns(p)
    \/ syncThrows
    \/ syncReturns

GameLiveSpec == Init /\ [][GameNext]_vars /\ WF_vars(Awaited)

----------------------------------------------------------------------------
(* What the claims are stated in *)

\* The last tool call was a get_best_move that reached getBestMove.
LastSearch == last.tool = "get_best_move" /\ ~last.isError

\* That call of getBestMove, with the calls of minimax made in it.
LastRun == search(last.entry, last.depth)

Eval(chess) == IF version = 1 THEN evaluatePosition(chess) ELSE evaluatePosition2(chess)
Minimax(chess, depth, alpha, beta, isMaximizing) ==
    IF version = 1 THEN minimax(chess, depth, alpha, beta, isMaximizing)
    ELSE minimax2(chess, depth, alpha, beta, isMaximizing)

LegalMoves(chess) == 1..NumMoves(chess)
SetMax(S) == CHOOSE x \in S : \A y \in S : y <= x
SetMin(S) == CHOOSE x \in S : \A y \in S : x <= y

\* The unpruned minimax: the same leaf evaluator and depth horizon, every
\* legal move of every node examined, no window.
RECURSIVE FullMinimax(_, _, _)
FullMinimax(chess, depth, isMaximizing) ==
    IF depth = 0 \/ isGameOver(chess) THEN Eval(chess)
    ELSE LET vals == {FullMinimax(move(chess, m), depth - 1, ~isMaximizing) :
                          m \in LegalMoves(chess)}
         IN IF isMaximizing THEN SetMax(vals) ELSE SetMin(vals)

Genuine(v) == v.val = FullMinimax(v.chess, v.depth, v.isMaximizing)
FullWindow(v) == v.alpha = -Infinity /\ v.beta = Infinity
Under(v, w) ==
    /\ Len(w.chess.hist) >= Len(v.chess.hist)
    /\ SubSeq(w.chess.hist, 1, Len(v.chess.hist)) = v.chess.hist

\* The call w expanded its node and a break ended its loop early: a legal
\* move of the node was never applied.
Cut(w, visits) ==
    /\ ~(w.depth = 0 \/ isGameOver(w.chess))
    /\ \E m \in LegalMoves(w.chess) : \A x \in visits : x.chess # move(w.chess, m)

\* The value the loop of getBestMove got for the root move m.
RootValue(visits, m) ==
    (CHOOSE v \in visits : v.chess = move(last.entry, m)).val

\* The order in which getBestMove tries the root moves.
RankedRoot ==
    IF version = 1 THEN orderMoves(last.entry, moves(last.entry)).moves
    ELSE moves(last.entry)
IndexIn(seq, x) == CHOOSE i \in 1..Len(seq) : seq[i] = x

\* C1: for every depth d >= 0 and either maximizing flag, minimax entered
\* with the window (-Infinity, +Infinity) returns the value of the unpruned
\* minimax of the same position and depth.
PruningKeepsValue ==
    LastSearch =>
        /\ \A v \in LastRun.visits :
               FullWindow(v) /\ v.depth >= 0 => Genuine(v)
        /\ \A d \in 0..MaxPly : \A f \in BOOLEAN :
               Minimax(last.entry, d, -Infinity, Infinity, f).val
                   = FullMinimax(last.entry, d, f)

\* A full-window call of each flag returned the unpruned value although a
\* break below it skipped moves.
PruningKeepsValueWitness ==
    /\ LastSearch
    /\ \A f \in BOOLEAN :
         \E v, w \in LastRun.visits :
            /\ FullWindow(v) /\ v.depth >= 2 /\ v.isMaximizing = f
            /\ Under(v, w) /\ Cut(w, LastRun.visits)
            /\ Genuine(v)

\* C2: when getBestMove or minimax returns, also after a break, the Chess
\* object is as it was when the call was entered; a get_best_move call
\* leaves the stored game's position unchanged.
PositionRestored ==
    LastSearch =>
        /\ games[last.game_id] = last.entry
        /\ LastRun.chess = last.entry
        /\ \A v \in LastRun.visits : v.left = v.chess

\* A search in which a break ended a loop early left every position as it
\* found it.
PositionRestoredWitness ==
    /\ LastSearch
    /\ \E w \in LastRun.visits : Cut(w, LastRun.visits) /\ w.left = w.chess
    /\ games[last.game_id] = last.entry
    /\ last.entry.hist # <<>>

\* C3: getBestMove returns null exactly when the position has no legal
\* move, and a legal move of the position otherwise, also when every root
\* move gets the initial -Infinity (maximizer) or +Infinity (minimizer).
NullIffNoLegalMove ==
    LastSearch =>
        /\ (last.move = null) <=> (NumMoves(last.entry) = 0)
        /\ NumMoves(last.entry) > 0 =>
               \E i \in 1..Len(moves(last.entry)) : moves(last.entry)[i] = last.move

\* Every root move got the initial value of bestScore, and a legal move was
\* returned all the same.
NullIffNoLegalMoveWitness ==
    /\ LastSearch
    /\ version = 2 /\ NumMoves(last.entry) > 1
    /\ \A m \in LegalMoves(last.entry) :
           RootValue(LastRun.visits, m) = worstScore(turn(last.entry) = "w")
    /\ last.move \in LegalMoves(last.entry)

\* C4: with a legal move and depth d >= 1, the unpruned minimax value at
\* depth d-1 of the position after the returned move is the maximum over the
\* root moves when White is to move and the minimum when Black is.
ValueAfter(m) ==
    FullMinimax(move(last.entry, m), last.depth - 1, turn(last.entry) # "w")
ReturnedMoveOptimal ==
    LastSearch /\ NumMoves(last.entry) > 0 /\ last.depth >= 1 =>
        LET vals == {ValueAfter(m) : m \in LegalMoves(last.entry)}
        IN ValueAfter(last.move) =
               IF turn(last.entry) = "w" THEN SetMax(vals) ELSE SetMin(vals)

\* Black chose, at depth 3, a move that is not the first tried and is
\* strictly better than another.
ReturnedMoveOptimalWitness ==
    /\ LastSearch /\ last.depth = 3 /\ turn(last.entry) = "b"
    /\ NumMoves(last.entry) > 1
    /\ last.move # RankedRoot[1]
    /\ \E m \in LegalMoves(last.entry) : ValueAfter(last.move) < ValueAfter(m)

\* C5: among the root moves whose searched value equals that of the move
\* returned, the move returned is the earliest in the ranked order.
EarliestOfEqualsReturned ==
    LastSearch /\ NumMoves(last.entry) > 0 =>
        \A i \in 1..Len(RankedRoot) :
            RootValue(LastRun.visits, RankedRoot[i]) = RootValue(LastRun.visits, last.move)
                => IndexIn(RankedRoot, last.move) <= i

\* Two root moves tied for the best value in a ranking that differs from
\* the order of moves(), and the one ranked earlier was returned.
EarliestOfEqualsReturnedWitness ==
    /\ LastSearch /\ version = 1
    /\ RankedRoot # moves(last.entry)
    /\ \E i \in 1..Len(RankedRoot) :
          /\ RankedRoot[i] # last.move
          /\ RankedRoot[i] < last.move
          /\ RootValue(LastRun.visits, RankedRoot[i]) = RootValue(LastRun.visits, last.move)
          /\ IndexIn(RankedRoot, last.move) < i

\* C7: for a fixed position and depth the full-window value of minimax is
\* the same whatever the order in which the moves of each node are listed.
Relisted(chess, k) == [chess EXCEPT !.listing = k]
SearchListed(k, f) ==
    Minimax(Relisted(last.entry, k), last.depth, -Infinity, Infinity, f)
OrderKeepsValue ==
    LastSearch =>
        \A k \in 0..MaxListing : \A f \in BOOLEAN :
            SearchListed(k, f).val = SearchListed(0, f).val

\* Another listing made the first revision's search visit other positions,
\* among them one with more than ten moves, and return the same value.
OrderKeepsValueWitness ==
    /\ LastSearch /\ version = 1
    /\ \E k \in 1..MaxListing : \E f \in BOOLEAN :
          /\ {v.chess.hist : v \in SearchListed(k, f).visits}
                # {v.chess.hist : v \in SearchListed(0, f).visits}
          /\ \E v \in SearchListed(k, f).visits :
                Len(moves(v.chess)) > 10 /\ v.depth # 0 /\ ~isGameOver(v.chess)
          /\ SearchListed(k, f).val = SearchListed(0, f).val

\* C8, as stated: every value minimax returns during a search, whatever
\* window the node was entered with, is the unpruned minimax value of the
\* node at its remaining depth.
EveryReturnGenuine ==
    LastSearch => \A v \in LastRun.visits : Genuine(v)

\* C8, amended: a value minimax returns that lies strictly between the
\* alpha and the beta the node was entered with is the unpruned minimax value
\* of the node at its remaining depth.
InsideWindowGenuine ==
    LastSearch =>
        \A v \in LastRun.visits : v.alpha < v.val /\ v.val < v.beta => Genuine(v)

\* A call that was entered with a narrowed window and looped over the moves
\* of its node returned a value strictly inside the window, the genuine one.
InsideWindowGenuineWitness ==
    /\ LastSearch
    /\ \E v \in LastRun.visits :
          /\ ~FullWindow(v) /\ v.alpha < v.val /\ v.val < v.beta /\ Genuine(v)
          /\ v.depth >= 1 /\ ~isGameOver(v.chess)

\* C9: in a position where exactly one move of the side to move gives
\* checkmate, the first revision's getBestMove returns that move at every
\* depth >= 1.
MatingMoves(chess) == {m \in LegalMoves(chess) : isCheckmate(move(chess, m))}
MateInOneReturned ==
    LastSearch /\ version = 1 /\ last.depth >= 1
               /\ Cardinality(MatingMoves(last.entry)) = 1
        => last.move \in MatingMoves(last.entry)

\* C10: for a checkmate position evaluatePosition returns the mate score
\* signed against the side to move: negative when White is to move,
\* positive when Black is.
Sentinel == IF version = 1 THEN MateScore ELSE Infinity
MatedScore(chess) == IF turn(chess) = "w" THEN -Sentinel ELSE Sentinel
MateScoredAgainstMover ==
    /\ \A g \in DOMAIN games :
           isCheckmate(games[g]) => Eval(games[g]) = MatedScore(games[g])
    /\ LastSearch =>
           \A v \in LastRun.visits :
               isCheckmate(v.chess) => v.val = MatedScore(v.chess)

\* One search evaluated a position in which White is mated and one in which
\* Black is.
MateScoredAgainstMoverWitness ==
    /\ LastSearch
    /\ \E v, w \in LastRun.visits :
          /\ isCheckmate(v.chess) /\ turn(v.chess) = "w" /\ v.val = -Sentinel
          /\ isCheckmate(w.chess) /\ turn(w.chess) = "b" /\ w.val = Sentinel

\* C11: for a position the rules engine calls a draw evaluatePosition
\* returns 0; for a stalemate it returns 0 and getBestMove returns null.
DrawScoresZero ==
    /\ \A g \in DOMAIN games : isDraw(games[g]) => Eval(games[g]) = 0
    /\ LastSearch =>
          /\ \A v \in LastRun.visits : isDraw(v.chess) => v.val = 0
          /\ isStalemate(last.entry) => Eval(last.entry) = 0 /\ last.move = null

\* getBestMove was asked about a stalemate and answered null, while the
\* other stored game is a draw in which there are legal moves and which
\* evaluates to 0.
DrawScoresZeroWitness ==
    /\ LastSearch /\ isStalemate(last.entry) /\ last.move = null
    /\ Eval(last.entry) = 0
    /\ \E g \in DOMAIN games :
          isDraw(games[g]) /\ NumMoves(games[g]) > 0 /\ Eval(games[g]) = 0

\* The score the claims C12 and C14 give a move of a position: 10 x value of
\* the captured piece - value of the moving piece if it captures, + value of
\* the promotion piece if it promotes, + 50 if it gives check.
HeuristicScore(chess, m) ==
    LET o == moveObj(chess, m)
    IN (IF o.captured # NoPiece
        THEN 10 * PIECE_VALUES[o.captured] - PIECE_VALUES[o.piece] ELSE 0)
       + (IF o.promotion # NoPiece THEN PIECE_VALUES[o.promotion] ELSE 0)
       + (IF isCheck(move(chess, m)) THEN 50 ELSE 0)
Occurrences(seq, x) == Cardinality({i \in 1..Len(seq) : seq[i] = x})
Listed(k) == Relisted(last.entry, k)
Ordered(k) == orderMoves(Listed(k), moves(Listed(k)))

\* C12: orderMoves returns a permutation of the list it was given, in
\* non-increasing heuristic score, moves of equal score in the order they
\* had in the list given.
OrderedIsStableSort ==
    LastSearch /\ version = 1 =>
        \A k \in 0..MaxListing :
            LET ms == moves(Listed(k))
                r == Ordered(k).moves
            IN /\ Len(r) = Len(ms)
               /\ \A x \in LegalMoves(last.entry) \cup {r[i] : i \in 1..Len(r)} :
                      Occurrences(r, x) = Occurrences(ms, x)
               /\ \A i \in 1..(Len(r) - 1) :
                      /\ HeuristicScore(Listed(k), r[i]) >= HeuristicScore(Listed(k), r[i + 1])
                      /\ HeuristicScore(Listed(k), r[i]) = HeuristicScore(Listed(k), r[i + 1])
                             => IndexIn(ms, r[i]) < IndexIn(ms, r[i + 1])

\* A list of more than ten moves came back in another order, with a step
\* down in score and with two moves of equal score next to each other.
OrderedIsStableSortWitness ==
    /\ LastSearch /\ version = 1
    /\ Len(moves(last.entry)) > 10
    /\ Ordered(0).moves # moves(last.entry)
    /\ \E i, j \in 1..(Len(moves(last.entry)) - 1) :
          /\ HeuristicScore(last.entry, Ordered(0).moves[i])
                 > HeuristicScore(last.entry, Ordered(0).moves[i + 1])
          /\ HeuristicScore(last.entry, Ordered(0).moves[j])
                 = HeuristicScore(last.entry, Ordered(0).moves[j + 1])

\* C13: while orderMoves scores a list the position is back in its state at
\* entry before each next move is applied, so each move is scored against
\* the position given, and it is in that state when orderMoves returns.
ScoredSoFar(k, i) == scoreMoves(Listed(k), SubSeq(moves(Listed(k)), 1, i), 1, <<>>)
OrderingLeavesPosition ==
    LastSearch /\ version = 1 =>
        \A k \in 0..MaxListing :
            /\ \A i \in 0..Len(moves(Listed(k))) : ScoredSoFar(k, i).chess = Listed(k)
            /\ \A i \in 1..Len(moves(Listed(k))) :
                   ScoredSoFar(k, i).scored[i].score
                       = HeuristicScore(Listed(k), moves(Listed(k))[i])
            /\ Ordered(k).chess = Listed(k)

\* orderMoves scored several moves of a position reached by moves, the last
\* of them with another score than the first, and left the position alone.
OrderingLeavesPositionWitness ==
    /\ LastSearch /\ version = 1
    /\ last.entry.hist # <<>>
    /\ Len(moves(last.entry)) > 2
    /\ HeuristicScore(last.entry, moves(last.entry)[1])
           # HeuristicScore(last.entry, moves(last.entry)[Len(moves(last.entry))])
    /\ Ordered(0).chess = last.entry

\* C14: when exactly one move of the list captures, and it is a pawn that
\* takes a queen, orderMoves puts it first, whatever promotions and checks
\* the other moves are.
PawnTakesQueen(chess, m) ==
    moveObj(chess, m).piece = "p" /\ moveObj(chess, m).captured = "q"
OnlyCapture(chess, m) ==
    \A x \in LegalMoves(chess) \ {m} : moveObj(chess, x).captured = NoPiece
PawnTakesQueenFirst ==
    LastSearch /\ version = 1 =>
        \A k \in 0..MaxListing : \A m \in LegalMoves(last.entry) :
            PawnTakesQueen(last.entry, m) /\ OnlyCapture(last.entry, m)
                => Ordered(k).moves[1] = m

\* The one capture, pawn takes queen, was not first in the list given, in
\* which there is a checking or promoting move, and came back first.
PawnTakesQueenFirstWitness ==
    /\ LastSearch /\ version = 1
    /\ \E m \in LegalMoves(last.entry) :
          /\ PawnTakesQueen(last.entry, m) /\ OnlyCapture(last.entry, m)
          /\ moves(last.entry)[1] # m
          /\ \E y \in LegalMoves(last.entry) \ {m} :
                \/ isCheck(move(last.entry, y))
                \/ moveObj(last.entry, y).promotion # NoPiece
          /\ Ordered(0).moves[1] = m

\* The depth ceiling of the get_best_move handler.
Ceiling == IF version = 1 THEN 3 ELSE 4
PliesBelowRoot(v) == Ply(v.chess) - Ply(last.entry)

\* C15: whatever depth argument a get_best_move request carries, the depth
\* handed to getBestMove is at most the ceiling (3 in the first revision, 4
\* in the second), so that no search goes more plies below its root than the
\* ceiling.
SearchWithinCeiling ==
    LastSearch =>
        /\ last.depth <= Ceiling
        /\ \A v \in LastRun.visits : PliesBelowRoot(v) <= Ceiling

\* C16: a search never enters a node more plies below its root than the
\* depth requested, also for a requested depth below 1 (the moves of the
\* root are always tried, so one ply is allowed for in any case).
SearchWithinRequested ==
    LastSearch =>
        \A v \in LastRun.visits : PliesBelowRoot(v) <= Max(last.depth, 1)

\* The order in which a node tries its moves, the recorded call of minimax
\* for the move m of the node w, and the window of w once its first i moves
\* have returned.
NodeOrder(w) ==
    IF version = 1 THEN orderIfMany(w.chess, moves(w.chess)).moves ELSE moves(w.chess)
Expanded(w) == ~(w.depth = 0 \/ isGameOver(w.chess))
Tried(w, m, visits) == \E x \in visits : x.chess = move(w.chess, m)
ChildOf(w, m, visits) == CHOOSE x \in visits : x.chess = move(w.chess, m)
ValuesOfFirst(w, i, visits) == {ChildOf(w, NodeOrder(w)[j], visits).val : j \in 1..i}
AlphaAfter(w, i, visits) ==
    IF w.isMaximizing THEN SetMax({w.alpha} \cup ValuesOfFirst(w, i, visits)) ELSE w.alpha
BetaAfter(w, i, visits) ==
    IF w.isMaximizing THEN w.beta ELSE SetMin({w.beta} \cup ValuesOfFirst(w, i, visits))

\* C21: in a search started by getBestMove every call of minimax is entered
\* with alpha <= beta, the calls for the root's moves with the window
\* (-Infinity, +Infinity); and a node applies a further move only when all
\* its earlier moves were tried and left alpha below beta.
WindowsStayOpen ==
    LastSearch =>
        LET visits == LastRun.visits
        IN /\ \A v \in visits : v.alpha <= v.beta
           /\ \A v \in visits : PliesBelowRoot(v) = 1 => FullWindow(v)
           /\ \A w \in visits : Expanded(w) =>
                 \A j \in 2..Len(NodeOrder(w)) :
                    Tried(w, NodeOrder(w)[j], visits) =>
                       /\ \A i \in 1..(j - 1) : Tried(w, NodeOrder(w)[i], visits)
                       /\ AlphaAfter(w, j - 1, visits) < BetaAfter(w, j - 1, visits)

\* A node reached beta <= alpha before its last move and applied no further
\* one, and another node went on to a second move with a narrowed window.
WindowsStayOpenWitness ==
    /\ LastSearch
    /\ \E w \in LastRun.visits :
          /\ Expanded(w)
          /\ \E i \in 1..(Len(NodeOrder(w)) - 1) :
                /\ \A j \in 1..i : Tried(w, NodeOrder(w)[j], LastRun.visits)
                /\ BetaAfter(w, i, LastRun.visits) <= AlphaAfter(w, i, LastRun.visits)
                /\ ~Tried(w, NodeOrder(w)[i + 1], LastRun.visits)
    /\ \E w \in LastRun.visits :
          /\ Expanded(w) /\ Len(NodeOrder(w)) >= 2
          /\ Tried(w, NodeOrder(w)[2], LastRun.visits)
          /\ ~FullWindow(ChildOf(w, NodeOrder(w)[2], LastRun.visits))

\* The position with only its first n moves played.
Prefix(chess, n) ==
    [chess EXCEPT !.hist = SubSeq(@, 1, n), !.keys = SubSeq(@, 1, n)]

\* The moves applied and not yet undone when the Chess object is as given.
Unpaired(chess) == Ply(chess) - Ply(last.entry)
\* The Chess object still holds the moves the game had when the search began.
KeepsGame(chess) ==
    /\ Ply(chess) >= Ply(last.entry)
    /\ Prefix(chess, Ply(last.entry)) = last.entry

\* C22: in a getBestMove call every apply is paired with one undo: a call
\* of minimax is entered with as many moves applied and not undone as it is
\* plies below the root, and leaves with as many; ordering the moves of a
\* node leaves the count as it was; no undo takes back a move the game had
\* before the call; and the count is zero when the call returns.
AppliesPairedWithUndos ==
    LastSearch =>
        LET visits == LastRun.visits
        IN /\ \A v \in visits :
                 /\ Unpaired(v.chess) = last.depth - v.depth
                 /\ Unpaired(v.left) = Unpaired(v.chess)
                 /\ KeepsGame(v.chess) /\ KeepsGame(v.left)
                 /\ Expanded(v) /\ version = 1 =>
                       Unpaired(orderIfMany(v.chess, moves(v.chess)).chess)
                           = Unpaired(v.chess)
           /\ NumMoves(last.entry) > 0 /\ version = 1 =>
                 \A i \in 0..NumMoves(last.entry) :
                    Unpaired(ScoredSoFar(0, i).chess) = 0
           /\ Unpaired(LastRun.chess) = 0
           /\ KeepsGame(LastRun.chess)
           /\ games[last.game_id] = last.entry

\* A search from a position the game reached by a move went two plies down
\* and more, a break ended one of its loops early, and no move was left
\* applied.
AppliesPairedWithUndosWitness ==
    /\ LastSearch
    /\ Ply(last.entry) >= 1
    /\ \E v, w \in LastRun.visits :
          /\ Unpaired(v.chess) >= 2 /\ Unpaired(v.left) = Unpaired(v.chess)
          /\ Cut(w, LastRun.visits)
    /\ Unpaired(LastRun.chess) = 0

\* The unpruned value of the node a call of minimax was made for.
TrueValue(v) == FullMinimax(v.chess, v.depth, v.isMaximizing)

\* A value minimax returned is the unpruned one when inside the window the
\* call was entered with, a lower bound on it when at or above beta, an
\* upper bound on it when at or below alpha.
BoundsTrueValue(v) ==
    /\ v.alpha < v.val /\ v.val < v.beta => v.val = TrueValue(v)
    /\ v.val >= v.beta => v.val <= TrueValue(v)
    /\ v.val <= v.alpha => TrueValue(v) <= v.val

\* The windows and depths minimax is also called with on the position
\* searched, and the calls of minimax made then.
WindowEnds == {-Infinity, 0, Infinity}
Windows == {w \in WindowEnds \X WindowEnds : w[1] < w[2]}
WindowDepths == 1..3
Windowed(w, d, f) == Minimax(last.entry, d, w[1], w[2], f).visits

\* C23: the moves a break skips cannot change the result.  For every call of
\* minimax, in a search and under any window alpha < beta, returning v:
\* alpha < v < beta makes v the unpruned value of the node, v >= beta a
\* lower bound on it, v <= alpha an upper bound on it; and the value the
\* root loop gets for each root move is the unpruned one.
SkippedCannotImprove ==
    LastSearch =>
        /\ \A v \in LastRun.visits : BoundsTrueValue(v)
        /\ \A v \in LastRun.visits : PliesBelowRoot(v) = 1 => v.val = TrueValue(v)
        /\ \A w \in Windows : \A d \in WindowDepths : \A f \in BOOLEAN :
              \A v \in Windowed(w, d, f) : BoundsTrueValue(v)

\* A break of the search skipped a move of a node whose returned value is a
\* lower bound below the unpruned value, under a root move whose value is
\* the unpruned one; and under some window a break left a node with an upper
\* bound above the unpruned value.
SkippedCannotImproveWitness ==
    /\ LastSearch
    /\ \E v, w \in LastRun.visits :
          /\ PliesBelowRoot(v) = 1 /\ Under(v, w)
          /\ Cut(w, LastRun.visits)
          /\ w.val >= w.beta /\ w.val < TrueValue(w)
          /\ v.val = TrueValue(v)
    /\ \E w \in Windows : \E d \in WindowDepths : \E f \in BOOLEAN :
          \E v \in Windowed(w, d, f) :
             /\ Cut(v, Windowed(w, d, f))
             /\ v.val <= v.alpha /\ TrueValue(v) < v.val

\* The largest and the smallest entry of a piece's table, and the most a
\* piece other than the king can count for.
PstMax(t) == SetMax({PST[t][r][c] : r \in 1..8, c \in 1..8})
PstMin(t) == SetMin({PST[t][r][c] : r \in 1..8, c \in 1..8})
MostForAPiece ==
    SetMax({PIECE_VALUES[t] + PstMax(t) : t \in DOMAIN PIECE_VALUES \ {"k"}})
\* No position has more legal moves than pieces of the side to move (16)
\* times squares to go to (63) times pieces to promote to (4).
MostMoves == 16 * 63 * 4
\* The most the sum of evaluatePosition can reach in absolute value: one side
\* with its king and 15 more pieces all at their best, the other with its
\* king alone at its worst, and the mobility term.
MostEvaluation ==
    (PIECE_VALUES["k"] + PstMax("k")) + (16 - 1) * MostForAPiece
        - (PIECE_VALUES["k"] + PstMin("k")) + 2 * MostMoves
Abs(x) == IF x < 0 THEN -x ELSE x

\* C24 (first revision, which has the sentinel 99999): the sum
\* evaluatePosition computes for a position that is not over is below the
\* sentinel in absolute value, for every position with one king and at most
\* 16 pieces a side and so for each the search evaluates; and every value
\* minimax returns lies within [-99999, 99999].
SentinelAboveEvaluations ==
    version = 1 =>
        /\ MostEvaluation < MateScore
        /\ \A i \in 1..Len(Boards) : Abs(SquareScores[i]) + 2 * MostMoves < MateScore
        /\ LastSearch =>
              \A v \in LastRun.visits :
                 /\ ~isGameOver(v.chess) /\ v.depth = 0 =>
                       Abs(evaluatePosition(v.chess)) < MateScore
                 /\ -MateScore <= v.val /\ v.val <= MateScore

\* A search of the first revision evaluated a position that is not over to
\* a value other than 0 and found a checkmate, scored with the sentinel.
SentinelAboveEvaluationsWitness ==
    /\ version = 1 /\ LastSearch
    /\ \E v \in LastRun.visits :
          /\ ~isGameOver(v.chess) /\ v.depth = 0
          /\ v.val # 0 /\ Abs(v.val) < MateScore
    /\ \E v \in LastRun.visits : isCheckmate(v.chess) /\ Abs(v.val) = MateScore

\* The sum, over the pieces of one colour on the board, of material plus
\* table entry, the table read at [row][col] for White and at [7-row][col]
\* for Black; from square number k on.
RECURSIVE SideSum(_, _, _)
SideSum(b, color, k) ==
    IF k > 63 THEN 0
    ELSE LET row == k \div 8
             col == k % 8
             piece == b[row][col]
         IN (IF piece.color # color THEN 0
             ELSE IF color = "w" THEN PIECE_VALUES[piece.type] + PST[piece.type][row + 1][col + 1]
             ELSE PIECE_VALUES[piece.type] + PST[piece.type][(7 - row) + 1][col + 1])
            + SideSum(b, color, k + 1)
SideSums == [i \in 1..Len(Boards) |->
                SideSum(Boards[i], "w", 0) - SideSum(Boards[i], "b", 0)]
\* The score stated for a position that is not over.
StatedScore(chess) ==
    SideSums[BoardIndex(chess)]
        + (IF turn(chess) = "w" THEN 2 * NumMoves(chess) ELSE -(2 * NumMoves(chess)))

\* The board with the colours of all pieces swapped and the rows mirrored,
\* and what evaluatePosition's loops and mobility term give for a board, a
\* side to move and a number of legal moves.
OtherColor(c) == IF c = "w" THEN "b" ELSE IF c = "b" THEN "w" ELSE c
Mirrored(b) ==
    [row \in 0..7 |-> [col \in 0..7 |->
        [type |-> b[7 - row][col].type, color |-> OtherColor(b[7 - row][col].color)]]]
ScoreOf(b, side, mobility) ==
    SquaresFrom(b, 0) + (IF side = "w" THEN mobility * 2 ELSE -(mobility * 2))
MirrorNegates ==
    \A i \in 1..Len(Boards) : \A side \in {"w", "b"} : \A n \in 0..11 :
        ScoreOf(Mirrored(Boards[i]), OtherColor(side), n) = -ScoreOf(Boards[i], side, n)

\* C25 (first revision): for a position that is not over evaluatePosition
\* returns White's sum of material plus table[row][col] minus Black's sum of
\* material plus table[7-row][col], plus twice the number of legal moves when
\* White is to move and minus that when Black is; swapping the colours,
\* mirroring the rows and swapping the side to move negates the score.
EvaluationIsStatedSum ==
    /\ \A id \in DOMAIN games :
          ~isGameOver(games[id]) =>
              /\ evaluatePosition(games[id]) = StatedScore(games[id])
              /\ evaluatePosition(games[id])
                    = ScoreOf(board(games[id]), turn(games[id]), NumMoves(games[id]))
    /\ LastSearch /\ version = 1 =>
          \A v \in LastRun.visits :
             ~isGameOver(v.chess) /\ v.depth = 0 => v.val = StatedScore(v.chess)
    /\ MirrorNegates

\* Stored games that are not over, one with White and one with Black to
\* move, on boards where the two sides' sums differ, and a search of the
\* first revision that evaluated a position that is not over.
EvaluationIsStatedSumWitness ==
    /\ \E id, jd \in DOMAIN games :
          /\ ~isGameOver(games[id]) /\ turn(games[id]) = "w"
          /\ ~isGameOver(games[jd]) /\ turn(games[jd]) = "b"
          /\ SideSums[BoardIndex(games[jd])] # 0
          /\ evaluatePosition(games[jd]) = StatedScore(games[jd])
    /\ LastSearch /\ version = 1
    /\ \E v \in LastRun.visits :
          ~isGameOver(v.chess) /\ v.depth = 0 /\ v.val = StatedScore(v.chess)

\* A step in which a tool call is answered with isError leaves the stored
\* games as they were; a make_move step that changes a position reports
\* success and changes the named game only, by the move named.
ErrorStep == last'.isError => games' = games
MakeMoveStep ==
    last'.tool = "make_move" /\ games' # games =>
        /\ ~last'.isError
        /\ DOMAIN games' = DOMAIN games
        /\ last'.game_id \in DOMAIN games
        /\ \A id \in DOMAIN games : id # last'.game_id => games'[id] = games[id]
        /\ games'[last'.game_id] = move(games[last'.game_id], last'.move)
        /\ last'.move \in LegalMoves(games[last'.game_id])

\* C26: every tool call answered with isError leaves the set of stored games
\* and every stored position unchanged; make_move changes a position only
\* when it reports success, and then only that of the named game.
ErrorsChangeNothing == [][ErrorStep /\ MakeMoveStep]_vars

\* With two games stored, one of them with moves played, a make_move on it
\* was answered with isError.
ErrorsChangeNothingWitness ==
    /\ last.isError /\ last.tool = "make_move"
    /\ last.text = "Invalid move"
    /\ Cardinality(DOMAIN games) = 2
    /\ last.game_id \in DOMAIN games
    /\ Ply(games[last.game_id]) >= 1

----------------------------------------------------------------------------
(* The orchestrator's claims, stated over the messages broadcast *)

\* The places of sent that hold a message of the type.
Sent(type) == {i \in DOMAIN sent : sent[i].type = type}

\* The README, How It Works, item 3: "it gets up to 3 retry attempts".
ReadmeRetries == 3
\* The retries of the turn: the attempts that came after the first one
\* failed.
RetriesUsed == Cardinality(Sent("illegalMove")) - 1

\* C17: White resigns a turn only after the retries the README states (3,
\* after the attempt that failed first) have been used.
ResignsAfterReadmeRetries ==
    \A i \in Sent("resignation") : sent[i].isWhite => RetriesUsed >= ReadmeRetries

\* C18: the orchestrator's position is the result of applying, from the
\* start, moves that were each legal where applied; moveHistory has one
\* entry per applied move; and a rejected proposal leaves both as the turn
\* found them.
TurnStart == sent[CHOOSE i \in Sent("turnStart") : TRUE]
OnlyValidatedMoves ==
    /\ \A n \in 1..Len(run.chess.hist) :
          /\ run.chess.hist[n] \in LegalMoves(Prefix(run.chess, n - 1))
          /\ Prefix(run.chess, n) = move(Prefix(run.chess, n - 1), run.chess.hist[n])
    /\ run.chess.listing = NewChess.listing
    /\ Len(run.moveHistory) = Len(run.chess.hist)
    /\ run.moveHistory = run.chess.hist
    /\ \A i \in Sent("illegalMove") :
          /\ sent[i].fen = TurnStart.fen
          /\ sent[i].moveHistory = TurnStart.moveHistory
    /\ run.pc \in {"ask", "get_best_move", "fallback"} =>
          /\ run.chess = TurnStart.fen
          /\ run.moveHistory = TurnStart.moveHistory
OnlyValidatedMovesWitness ==
    /\ Len(run.moveHistory) >= 2
    /\ run.pc = "ask"
    /\ run.attempts > 0
    /\ \E i \in Sent("illegalMove") : sent[i].move = IllegalProposal(run.chess)

\* C19: every move Black proposes is a legal move of the orchestrator's
\* position, whatever the engine and the model answer; no illegalMove and
\* no resignation is Black's.
BlackPlaysValidMoves ==
    /\ \A i \in Sent("moveAttempt") :
          ~sent[i].isWhite => sent[i].move \in LegalMoves(sent[i].fen)
    /\ \A i \in Sent("illegalMove") \cup Sent("resignation") : sent[i].isWhite
\* Black has moved although the engine's answer, for a game out of step or
\* not stored, was no legal move of the position.
BlackPlaysValidMovesWitness ==
    /\ \E i \in Sent("moveAttempt") : ~sent[i].isWhite
    /\ ~run.isWhiteTurn
    /\ run.pc \in {"make_move", "loop"}
    /\ last.tool = "get_best_move"
    /\ last.game_id = run.mcpGameId
    /\ engineMove(last) \notin LegalMoves(undo(run.chess))

\* C20: the game loop is left only with the game over or the attempts of the
\* player to move used up; White has the turns after an even number of
\* moves and Black the others; and once the loop is left exactly one
\* gameOver has been broadcast, none before.
GameEndsOnlyWhenDue ==
    /\ \A i \in Sent("gameOver") :
          isGameOver(sent[i].fen) \/ sent[i].attempt >= maxAttempts
    /\ \A i \in Sent("turnStart") :
          sent[i].isWhite <=> Len(sent[i].moveHistory) % 2 = 0
    /\ run.pc \in {"ask", "get_best_move", "fallback"} =>
          (run.isWhiteTurn <=> Len(run.moveHistory) % 2 = 0)
    /\ run.pc \in {"make_move", "loop"} =>
          (run.isWhiteTurn <=> Len(run.moveHistory) % 2 = 1)
    /\ gameInProgress => Sent("gameOver") = {}
    /\ ~gameInProgress /\ played > 0 => Cardinality(Sent("gameOver")) = 1
GameEndsOnlyWhenDueWitness ==
    \E i \in Sent("gameOver") :
        /\ isGameOver(sent[i].fen)
        /\ Len(sent[i].moveHistory) >= 3
        /\ ~gameInProgress

\* A step in which a startGame message arrives while a game is in progress:
\* the error is broadcast and nothing else changes.
StartWhileInProgress ==
    gameInProgress /\ started' = started + 1 =>
        /\ sent' = Append(sent, Notice("error"))
        /\ run' = run
        /\ gameInProgress'
        /\ played' = played
        /\ games' = games
        /\ mcpAvailable' = mcpAvailable

\* C27: at most one game loop runs: a game is in progress exactly while
\* runGame stands somewhere in its loop, and a runGame invoked while a game
\* is in progress broadcasts the error and returns: no new position, no
\* gameStart, the running game as it was.
OneGameLoop ==
    /\ [](gameInProgress <=> run.pc # "idle")
    /\ [][StartWhileInProgress]_vars

\* While the MCP initialisation was still awaited and a game had a move
\* played, a startGame message was answered with the error, the game going
\* on.
OneGameLoopWitness ==
    /\ gameInProgress /\ connecting
    /\ started = 2 /\ played = 1
    /\ Len(run.moveHistory) >= 1
    /\ \E i \in Sent("error") : i > 1 /\ sent[i - 1].type # "gameStart"
    /\ Sent("gameStart") = {}

\* A step that starts a turn: turnStart is broadcast.
TurnStarts ==
    /\ sent' # sent
    /\ sent' # <<>>
    /\ sent'[Len(sent')].type = "turnStart"
\* The chess server stores under the game's id the position the orchestrator
\* has.
ServerInStep ==
    /\ run.mcpGameId \in DOMAIN games
    /\ games[run.mcpGameId].hist = run.chess.hist

\* C28: whenever a turn starts with mcpAvailable true, the chess server
\* stores under the game's id the position the orchestrator has.
ServerInStepAtTurnStart ==
    [][TurnStarts /\ mcpAvailable' => ServerInStep']_vars

\* C29: every game that is started ends: once gameInProgress is true, a
\* gameOver is broadcast and gameInProgress is false again.
EveryGameEnds ==
    gameInProgress ~> (~gameInProgress /\ Sent("gameOver") # {})

\* A game has ended, by resignation, after an exception of the proposer and
\* an illegal proposal in its last turn.
EveryGameEndsWitness ==
    /\ ~gameInProgress /\ played = 1
    /\ Sent("gameOver") # {} /\ Sent("resignation") # {}
    /\ \E i, j \in Sent("illegalMove") :
          sent[i].move = errorMessage /\ sent[j].move # errorMessage

====
